---- MODULE Spec2Model ----
(***************************************************************************)
(* Model of sheet.c: a streaming table editor.  main() reads one row at a  *)
(* time, re-parses the program arguments into functions, applies them to   *)
(* the row and writes the row.                                             *)
(*                                                                         *)
(* Characters are one-character strings; NUL stands for '\0' and NL for    *)
(* '\n'.  A C string is the sequence of its characters before the          *)
(* terminating NUL.  Row buffers are functions over 0..MAX_ROW_SIZE-1, so   *)
(* that every index the code computes can be compared with the buffer's    *)
(* bounds.  The capacities MAX_ROW_SIZE and MAX_CELL_SIZE are scaled down.  *)
(***************************************************************************)
EXTENDS Integers, Sequences, FiniteSets, TLC

\* ------------------------------------------------------------------ bounds
\* Scaled capacity of Row.data (10 * 1024 in the source).
MAX_ROW_SIZE == 10
\* Scaled capacity of a cell buffer (100 in the source).
MAX_CELL_SIZE == 5
\* Largest number of input rows on stdin.
MaxRows == 2
\* Largest number of columns of an input row.
MaxCols == 2
\* Largest row/column number written in the program arguments.
MaxArg == 2
\* Largest number of commands (selector + function) in the program arguments.
MaxFuncs == 2
\* Largest number of columns of a row, in the runs of one command on one row.
MaxWide == 3

\* --------------------------------------------------------------- constants
LAST_ROW_NUMBER == 0
INVALID_NUMBER == -1
NO_SELECTION == -1

\* -------------------------------------------------------------- characters
NUL == "NUL"
NL == "\n"
Digits == <<"0", "1", "2", "3", "4", "5", "6", "7", "8", "9">>
DigitSet == {Digits[k] : k \in 1..10}
DigitVal(c) == (CHOOSE k \in 1..10 : Digits[k] = c) - 1
Lowers == <<"a", "b", "r", "o", "w", "x">>
Uppers == <<"A", "B", "R", "O", "W", "X">>

\* Bytes an out-of-bounds or uninitialised read can deliver.
Garbage == {NUL, ",", NL, "g"}
\* The bytes behind a buffer: the first one, and every one after it.
Behind == Garbage \X Garbage

Max(a, b) == IF a > b THEN a ELSE b

RowIdx == 0..(MAX_ROW_SIZE - 1)
ZeroBuf == [k \in RowIdx |-> NUL]

\* strlen() of a row buffer; a buffer without NUL makes strlen read past it.
HasNul(data) == \E k \in RowIdx : data[k] = NUL
strlen(data) == IF HasNul(data) THEN CHOOSE k \in RowIdx : data[k] = NUL /\ \A m \in 0..(k - 1) : data[m] # NUL
                ELSE MAX_ROW_SIZE
\* The C string held by a row buffer.
CStr(data) == [k \in 1..strlen(data) |-> data[k - 1]]
\* memmove(dst, src, strlen(src)) into the start of a row buffer.
PutStr(data, s) == [k \in RowIdx |-> IF k < Len(s) THEN s[k + 1] ELSE data[k]]
\* memset(dst, '\0', n)
Clear(data, n) == [k \in RowIdx |-> IF k < n THEN NUL ELSE data[k]]

\* ------------------------------------------------------- help functions
\* isDelimiter(c, delimiters)
isDelimiter(c, delimiters) == \E k \in 1..Len(delimiters) : delimiters[k] = c

\* unifyRowDelimiters(row, delimiters): the row data with every delimiter
\* replaced by the first one.
unifyRowDelimiters(row, delimiters) ==
    [row EXCEPT !.data = [k \in RowIdx |->
        IF k < row.size /\ isDelimiter(row.data[k], delimiters) /\ row.data[k] # delimiters[1]
        THEN delimiters[1] ELSE row.data[k]]]

\* The loop of checkCellsSize: FALSE as soon as a run of non-delimiter bytes
\* (the newline counts) is longer than MAX_CELL_SIZE.
RECURSIVE cellsLoop(_, _, _, _)
cellsLoop(row, delimiter, k, size) ==
    IF k >= row.size THEN TRUE
    ELSE LET s == IF row.data[k] # delimiter THEN size + 1 ELSE 0
         IN  IF s > MAX_CELL_SIZE THEN FALSE ELSE cellsLoop(row, delimiter, k + 1, s)

checkCellsSize(row, delimiter) == cellsLoop(row, delimiter, 0, 0)

\* verifyRow(row, delimiter): the error message, "" when the row is valid.
verifyRow(row, delimiter) ==
    IF row.size > MAX_ROW_SIZE THEN "RowTooLarge"
    ELSE IF ~checkCellsSize(row, delimiter) THEN "CellTooLarge"
    ELSE ""

\* countColumns(row, delimiter)
countColumns(row, delimiter) ==
    IF row.size = 0 THEN 0
    ELSE 1 + Cardinality({k \in 0..(row.size - 1) : row.data[k] = delimiter})

\* The loop of getColumnValue: the bytes copied to value, in order.
RECURSIVE gcvLoop(_, _, _, _, _, _)
gcvLoop(row, columnNumber, delimiter, k, counter, value) ==
    IF k >= row.size THEN value
    ELSE IF row.data[k] = delimiter \/ row.data[k] = NL
         THEN gcvLoop(row, columnNumber, delimiter, k + 1, counter + 1, value)
         ELSE IF counter = columnNumber
              THEN gcvLoop(row, columnNumber, delimiter, k + 1, counter, Append(value, row.data[k]))
              ELSE gcvLoop(row, columnNumber, delimiter, k + 1, counter, value)

\* A char[MAX_CELL_SIZE] buffer read as a C string after bytes were stored in
\* it from its start on: with MAX_CELL_SIZE bytes or more stored no '\0' is left
\* in it, and the string runs on into the bytes g that lie behind it.
ReadValue(bytes, g) ==
    IF Len(bytes) < MAX_CELL_SIZE \/ g[1] = NUL THEN bytes
    ELSE IF g[2] = NUL THEN Append(bytes, g[1])
    ELSE bytes \o g

\* getColumnValue(value, row, columnNumber, delimiter, numberOfColumns): the
\* C string the caller reads from value.
getColumnValue(row, columnNumber, delimiter, numberOfColumns, g) ==
    IF columnNumber > numberOfColumns THEN << >>
    ELSE ReadValue(gcvLoop(row, columnNumber, delimiter, 0, 1, << >>), g)

\* rowBackup[k]; an index past the buffer reads the bytes that lie there:
\* g[1] right behind the buffer, g[2] in every byte after it.
ReadBackup(backup, k, g) == IF k \in RowIdx THEN backup[k] ELSE IF k = MAX_ROW_SIZE THEN g[1] ELSE g[2]

\* row->data[k] = c; a write outside the buffer does not land in it.
WriteData(data, k, c) == IF k \in RowIdx THEN [data EXCEPT ![k] = c] ELSE data

\* row->data[i + dataIndex] = value[i] for every i (setColumnValue, inner loop)
WriteValue(data, dataIndex, value) ==
    [k \in RowIdx |-> IF k >= dataIndex /\ k < dataIndex + Len(value)
                      THEN value[k - dataIndex + 1] ELSE data[k]]

\* setColumnValue's scan for the end of the old column: the first index from
\* backupIndex on whose byte is the delimiter or the newline; -1 when the scan
\* leaves the buffer and the bytes behind it (g) never stop it.
ScanEnd(backup, backupIndex, delimiter, g) ==
    LET stops == {k \in RowIdx : k >= backupIndex /\ (backup[k] = delimiter \/ backup[k] = NL)}
    IN  IF stops # {} THEN CHOOSE k \in stops : \A m \in stops : k <= m
        ELSE IF backupIndex <= MAX_ROW_SIZE /\ (g[1] = delimiter \/ g[1] = NL) THEN MAX_ROW_SIZE
        ELSE IF g[2] = delimiter \/ g[2] = NL THEN Max(backupIndex, MAX_ROW_SIZE + 1)
        ELSE -1

\* One pass of the main loop of setColumnValue.  st = [data, dataIndex,
\* backupIndex, counter, oob, crash]; oob records an index outside
\* 0..MAX_ROW_SIZE-1, crash a scan that never ends inside readable memory.
\* hit: counter == columnNumber; end: backupIndex after the inner scan;
\* c: rowBackup[backupIndex].
scvStep(st, value, delimiter, hit, end, c) ==
    IF end = -1
    THEN [st EXCEPT !.data = WriteValue(st.data, st.dataIndex, value), !.oob = TRUE, !.crash = TRUE]
    ELSE [data |-> WriteData(IF hit THEN WriteValue(st.data, st.dataIndex, value) ELSE st.data,
                             IF hit THEN st.backupIndex + Len(value) ELSE st.dataIndex, c),
          dataIndex |-> (IF hit THEN st.backupIndex + Len(value) ELSE st.dataIndex) + 1,
          backupIndex |-> end + 1,
          counter |-> IF c = delimiter \/ c = NL THEN st.counter + 1 ELSE st.counter,
          oob |-> \/ st.oob
                  \/ hit /\ st.dataIndex + Len(value) > MAX_ROW_SIZE
                  \/ (IF hit THEN st.backupIndex + Len(value) ELSE st.dataIndex) \notin RowIdx
                  \/ end \notin RowIdx,
          crash |-> FALSE]

scvScan(st, value, backup, delimiter, g, hit, end) ==
    scvStep(st, value, delimiter, hit, end, ReadBackup(backup, end, g))

\* The main loop of setColumnValue.
RECURSIVE scvLoop(_, _, _, _, _, _)
scvLoop(st, value, backup, columnNumber, delimiter, g) ==
    IF st.dataIndex >= MAX_ROW_SIZE \/ st.crash THEN st
    ELSE scvLoop(scvScan(st, value, backup, delimiter, g, st.counter = columnNumber,
                         IF st.counter = columnNumber
                         THEN ScanEnd(backup, st.backupIndex, delimiter, g)
                         ELSE st.backupIndex),
                 value, backup, columnNumber, delimiter, g)

\* The end of setColumnValue: row->data[dataIndex] = '\n' for the last column
\* (dataIndex is MAX_ROW_SIZE or more by then) and the new size.
scvEnd(row, st, last) ==
    [row |-> [row EXCEPT !.data = st.data, !.size = strlen(st.data)],
     oob |-> st.oob \/ last \/ ~HasNul(st.data),
     crash |-> st.crash]

\* setColumnValue(value, row, columnNumber, delimiter, numberOfColumns).
\* The result is the row, with oob and crash.
setColumnValue(value, row, columnNumber, delimiter, numberOfColumns, g) ==
    IF columnNumber > numberOfColumns
    THEN [row |-> row, oob |-> FALSE, crash |-> FALSE]
    ELSE scvEnd(row,
                scvLoop([data |-> row.data, dataIndex |-> 0, backupIndex |-> 0, counter |-> 1,
                         oob |-> FALSE, crash |-> FALSE],
                        value, row.data, columnNumber, delimiter, g),
                columnNumber = numberOfColumns)

\* ----------------------------------------------------------------- output
\* printf("%s", row->data)
writeProcessedRow(row) == [call |-> "writeProcessedRow", number |-> row.number, text |-> CStr(row.data)]
\* writeNewRow(delimiter, numberOfColumns), called for the function by
writeNewRow(delimiter, numberOfColumns, by) ==
    [call |-> "writeNewRow", number |-> 0, by |-> by,
     text |-> [k \in 1..Max(numberOfColumns, 1) |-> IF k < Max(numberOfColumns, 1) THEN delimiter ELSE NL]]

\* What a function hands back to main: the row, the shared column count, the
\* rows it wrote, ErrorInfo as a string ("" is {false, NULL}; "NO_FUNCTION_USED"
\* is {false, "NO_FUNCTION_USED"}; anything else is an error), and whether it
\* used an index outside the row buffer (oob) or never came back (crash).
Result(row, noc, out, err, oob, crash) ==
    [row |-> row, noc |-> noc, out |-> out, err |-> err, oob |-> oob, crash |-> crash]

\* ------------------------------------------------ table editing functions
\* A drows that takes its range as open at the lower end.
drowsOpenRange(from, to, row, noc) ==
    IF from > to THEN Result(row, noc, << >>, "BadRange", FALSE, FALSE)
    ELSE Result([row EXCEPT !.deleted = (row.number > from /\ row.number <= to) \/ row.deleted],
                noc, << >>, "", FALSE, FALSE)

\* drows(from, to, row)
drows(from, to, row, noc) ==
    IF from > to THEN Result(row, noc, << >>, "BadRange", FALSE, FALSE)
    ELSE Result([row EXCEPT !.deleted = (row.number >= from /\ row.number <= to) \/ row.deleted],
                noc, << >>, "", FALSE, FALSE)

\* What a function that ends with setColumnValue hands back.
AfterSet(set, noc) == Result(set.row, noc, << >>, "", set.oob, set.crash)

\* icol(column, row, delimiter, numberOfColumns)
icol(column, row, delimiter, noc, g) ==
    IF row.size + 1 > MAX_ROW_SIZE THEN Result(row, noc, << >>, "RowOverflow", FALSE, FALSE)
    ELSE AfterSet(setColumnValue(<<delimiter>> \o getColumnValue(row, column, delimiter, noc, g),
                                 row, column, delimiter, noc, g),
                  IF row.number = 1 THEN noc + 1 ELSE noc)

\* acol(row, delimiter, numberOfColumns)
acol(row, delimiter, noc) ==
    IF row.size + 1 > MAX_ROW_SIZE THEN Result(row, noc, << >>, "RowOverflow", FALSE, FALSE)
    ELSE Result([row EXCEPT !.data = WriteData(WriteData(row.data, row.size - 1, delimiter), row.size, NL),
                            !.size = row.size + 1],
                IF row.number = 1 THEN noc + 1 ELSE noc, << >>, "",
                (row.size - 1) \notin RowIdx \/ row.size \notin RowIdx, FALSE)

\* One pass of the recovery loop of dcols.  st = [data, dataIndex, counter, oob].
dcolsStep(st, kept, lastByte, byte, delimiter) ==
    [data |-> IF kept THEN WriteData(st.data, st.dataIndex, byte)
              ELSE IF lastByte THEN WriteData(st.data, st.dataIndex - 1, NUL)
              ELSE st.data,
     dataIndex |-> IF kept THEN st.dataIndex + 1 ELSE IF lastByte THEN st.dataIndex - 1 ELSE st.dataIndex,
     counter |-> IF byte = delimiter THEN st.counter + 1 ELSE st.counter,
     oob |-> st.oob \/ (lastByte /\ (st.dataIndex - 1) \notin RowIdx)]

\* The recovery loop of dcols.
RECURSIVE dcolsLoop(_, _, _, _, _, _, _)
dcolsLoop(st, j, from, to, size, rowBackup, delimiter) ==
    IF j >= size THEN st
    ELSE dcolsLoop(dcolsStep(st, ~(st.counter >= from /\ st.counter <= to),
                             (st.counter >= from /\ st.counter <= to) /\ j = size - 1,
                             rowBackup[j], delimiter),
                   j + 1, from, to, size, rowBackup, delimiter)

\* The end of dcols: the new size, and the newline put back.  With size 0,
\* row->data[row->size - 1] is row->data[-1], the byte the loop has just set
\* to '\0'.
dcolsEnd(row, noc, st, size, endsNL) ==
    Result([row EXCEPT !.data = IF endsNL THEN st.data ELSE WriteData(st.data, size, NL),
                       !.size = IF endsNL THEN size ELSE size + 1],
           noc, << >>, "", st.oob \/ size = 0 \/ (~endsNL /\ size \notin RowIdx), FALSE)

dcolsSize(row, noc, st, size) == dcolsEnd(row, noc, st, size, size > 0 /\ st.data[size - 1] = NL)

dcolsRecount(row, noc, st) == dcolsSize(row, noc, st, strlen(st.data))

\* dcols(from, to, row, delimiter)
dcols(from, to, row, delimiter, noc) ==
    IF from > to THEN Result(row, noc, << >>, "BadRange", FALSE, FALSE)
    ELSE dcolsRecount(row, noc,
                      dcolsLoop([data |-> ZeroBuf, dataIndex |-> 0, counter |-> 1, oob |-> FALSE],
                                0, from, to, row.size, row.data, delimiter))

\* ---------------------------------------------------------------- numbers
RECURSIVE NatToStr(_)
NatToStr(n) == IF n < 10 THEN <<Digits[n + 1]>> ELSE Append(NatToStr(n \div 10), Digits[(n % 10) + 1])

\* The longest prefix of s made of digits.
RECURSIVE DigitPrefix(_)
DigitPrefix(s) == IF s # << >> /\ Head(s) \in DigitSet THEN <<Head(s)>> \o DigitPrefix(Tail(s)) ELSE << >>

RECURSIVE DigitsToNat(_)
DigitsToNat(s) == IF s = << >> THEN 0 ELSE 10 * DigitsToNat(SubSeq(s, 1, Len(s) - 1)) + DigitVal(s[Len(s)])

RECURSIVE SkipSpaces(_)
SkipSpaces(s) == IF s # << >> /\ Head(s) = " " THEN SkipSpaces(Tail(s)) ELSE s

\* strtol(value, NULL, 10): leading blanks, an optional sign, then the digits
\* that follow; whatever comes after them is ignored.
strtol(value) ==
    LET t == SkipSpaces(value)
        neg == t # << >> /\ Head(t) = "-"
        u == IF t # << >> /\ (Head(t) = "-" \/ Head(t) = "+") THEN Tail(t) ELSE t
        n == DigitsToNat(DigitPrefix(u))
    IN  IF neg THEN 0 - n ELSE n

\* toRowColNum(value, specialAllowed)
AtLeastOne(number) == IF number >= 1 THEN number ELSE INVALID_NUMBER

toRowColNum(value, specialAllowed) ==
    IF value = <<"-">> /\ specialAllowed THEN LAST_ROW_NUMBER
    ELSE AtLeastOne(strtol(value))

\* The loop of isValidNumber: only a first byte that is neither a digit, nor
\* '-', nor '.' makes it return false.
RECURSIVE validLoop(_, _, _)
validLoop(number, k, decimalPoint) ==
    IF k > Len(number) THEN TRUE
    ELSE IF (number[k] \notin DigitSet) /\ (k = 1 /\ number[k] # "-")
         THEN IF number[k] = "." /\ ~decimalPoint THEN validLoop(number, k + 1, TRUE) ELSE FALSE
         ELSE validLoop(number, k + 1, decimalPoint)

isValidNumber(number) == validLoop(number, 1, FALSE)

\* strtod(value, NULL) for the bytes of the model's alphabet (no exponent, no
\* hexadecimal, no inf/nan): sign, integer digits, fraction digits.
strtod(value) ==
    LET t == SkipSpaces(value)
        neg == t # << >> /\ Head(t) = "-"
        u == IF t # << >> /\ (Head(t) = "-" \/ Head(t) = "+") THEN Tail(t) ELSE t
        ip == DigitPrefix(u)
        rest == SubSeq(u, Len(ip) + 1, Len(u))
        fp == IF rest # << >> /\ Head(rest) = "." THEN DigitPrefix(Tail(rest)) ELSE << >>
        none == ip = << >> /\ fp = << >>
    IN  [neg |-> neg /\ ~none, int |-> DigitsToNat(ip), frac |-> IF none THEN << >> ELSE fp]

RECURSIVE StripZeros(_)
StripZeros(s) == IF s # << >> /\ s[Len(s)] = "0" THEN StripZeros(SubSeq(s, 1, Len(s) - 1)) ELSE s

\* sprintf(value, "%.f", number): nearest integer, a tie going to the even one.
FormatRounded(number) ==
    LET f == StripZeros(number.frac)
        up == IF f = << >> THEN FALSE
              ELSE IF f = <<"5">> THEN number.int % 2 = 1
              ELSE DigitVal(f[1]) >= 5
        n == IF up THEN number.int + 1 ELSE number.int
    IN  (IF number.neg THEN <<"-">> ELSE << >>) \o NatToStr(n)

\* sprintf(value, "%d", (int)number)
FormatTruncated(number) ==
    (IF number.neg /\ number.int > 0 THEN <<"-">> ELSE << >>) \o NatToStr(number.int)

\* ---------------------------------------------- data processing functions
\* cset(column, value, row, delimiter, numberOfColumns)
cset(column, value, row, delimiter, noc, g) ==
    IF Len(value) > MAX_CELL_SIZE THEN Result(row, noc, << >>, "ValueTooLarge", FALSE, FALSE)
    ELSE AfterSet(setColumnValue(value, row, column, delimiter, noc, g), noc)

\* value[j] + shift for a byte in start..start + ('z' - 'a')
ShiftCase(newCaseLower, c) ==
    LET src == IF newCaseLower THEN Uppers ELSE Lowers
        dst == IF newCaseLower THEN Lowers ELSE Uppers
    IN  IF \E k \in 1..Len(src) : src[k] = c THEN dst[CHOOSE k \in 1..Len(src) : src[k] = c] ELSE c

NewCase(newCaseLower, value) == [k \in 1..Len(value) |-> ShiftCase(newCaseLower, value[k])]

\* changeColumnCase(newCase, column, row, delimiter, numberOfColumns)
changeColumnCase(newCaseLower, column, row, delimiter, noc, g) ==
    AfterSet(setColumnValue(NewCase(newCaseLower, getColumnValue(row, column, delimiter, noc, g)),
                            row, column, delimiter, noc, g),
             noc)

roundValue(value, column, row, delimiter, noc, g) ==
    IF ~isValidNumber(value) THEN Result(row, noc, << >>, "InvalidNumber", FALSE, FALSE)
    ELSE AfterSet(setColumnValue(FormatRounded(strtod(value)), row, column, delimiter, noc, g), noc)

\* roundColumnValue(column, row, delimiter, numberOfColumns)
roundColumnValue(column, row, delimiter, noc, g) ==
    roundValue(getColumnValue(row, column, delimiter, noc, g), column, row, delimiter, noc, g)

removeValue(value, column, row, delimiter, noc, g) ==
    IF ~isValidNumber(value) THEN Result(row, noc, << >>, "InvalidNumber", FALSE, FALSE)
    ELSE AfterSet(setColumnValue(FormatTruncated(strtod(value)), row, column, delimiter, noc, g), noc)

\* removeColumnDecimalPart(column, row, delimiter, numberOfColumns)
removeColumnDecimalPart(column, row, delimiter, noc, g) ==
    removeValue(getColumnValue(row, column, delimiter, noc, g), column, row, delimiter, noc, g)

\* copy(from, to, row, delimiter, numberOfColumns)
copy(from, to, row, delimiter, noc, g) ==
    IF from > noc \/ to > noc THEN Result(row, noc, << >>, "", FALSE, FALSE)
    ELSE AfterSet(setColumnValue(getColumnValue(row, from, delimiter, noc, g), row, to, delimiter, noc, g), noc)

\* A second step on the row a first step (with its oob and crash) has left.
ThenSet(before, value, column, delimiter, noc, g) ==
    IF before.crash THEN Result(before.row, noc, << >>, "", TRUE, TRUE)
    ELSE AfterSet([setColumnValue(value, before.row, column, delimiter, noc, g)
                      EXCEPT !.oob = @ \/ before.oob],
                  noc)

\* swap(first, second, row, delimiter, numberOfColumns)
swap(first, second, row, delimiter, noc, g) ==
    IF first > noc \/ second > noc THEN Result(row, noc, << >>, "", FALSE, FALSE)
    ELSE ThenSet(setColumnValue(getColumnValue(row, first, delimiter, noc, g), row, second, delimiter, noc, g),
                 getColumnValue(row, second, delimiter, noc, g), first, delimiter, noc, g)

\* move: moving[strlen(moving)] = delimiter; strcat(moving, second).  Of the
\* char[2 * MAX_CELL_SIZE] buffer getColumnValue has zeroed the first
\* MAX_CELL_SIZE bytes only: a delimiter stored in the last of them, or behind
\* them, is followed by a byte nobody wrote (g[2]).
Moving(moving, second, delimiter, g) ==
    IF Len(moving) + 1 < MAX_CELL_SIZE \/ g[2] = NUL
    THEN moving \o <<delimiter>> \o second
    ELSE moving \o <<delimiter, g[2]>> \o second

\* move(column, beforeColumn, row, delimiter, numberOfColumns)
move(column, beforeColumn, row, delimiter, noc, g) ==
    IF column > noc \/ beforeColumn > noc \/ column = beforeColumn
    THEN Result(row, noc, << >>, "", FALSE, FALSE)
    ELSE ThenSet(dcols(column, column, row, delimiter, noc),
                 Moving(getColumnValue(row, column, delimiter, noc, g),
                        getColumnValue(row, beforeColumn, delimiter, noc, g), delimiter, g),
                 IF beforeColumn > column THEN beforeColumn - 1 ELSE beforeColumn,
                 delimiter, noc, g)

\* -------------------------------------------------------- program arguments
AROW == <<"a", "r", "o", "w">>
IROW == <<"i", "r", "o", "w">>
DROW == <<"d", "r", "o", "w">>
DROWS == <<"d", "r", "o", "w", "s">>
ICOL == <<"i", "c", "o", "l">>
ACOL == <<"a", "c", "o", "l">>
DCOL == <<"d", "c", "o", "l">>
DCOLS == <<"d", "c", "o", "l", "s">>
CSET == <<"c", "s", "e", "t">>
TOLOWER == <<"t", "o", "l", "o", "w", "e", "r">>
TOUPPER == <<"t", "o", "u", "p", "p", "e", "r">>
ROUND == <<"r", "o", "u", "n", "d">>
INT == <<"i", "n", "t">>
COPY == <<"c", "o", "p", "y">>
SWAP == <<"s", "w", "a", "p">>
MOVE == <<"m", "o", "v", "e">>
ROWS == <<"r", "o", "w", "s">>
BEGINSWITH == <<"b", "e", "g", "i", "n", "s", "w", "i", "t", "h">>
CONTAINS == <<"c", "o", "n", "t", "a", "i", "n", "s">>

\* The tables functions[] and funcArgs[] of getFunctionFromArgs.
FunctionNames == <<AROW, IROW, DROW, DROWS, ICOL, ACOL, DCOL, DCOLS, CSET, TOLOWER, TOUPPER, ROUND,
                   INT, COPY, SWAP, MOVE>>
funcArgs == <<0, 1, 1, 2, 1, 0, 1, 2, 2, 1, 1, 1, 1, 2, 2, 2>>

\* A char[MAX_CELL_SIZE] string parameter: the bytes written to it, and
\* whether a terminated string was stored at all.  A buffer that was never
\* written, or filled without room for the NUL, reads as whatever follows.
StrParam(s) == [s |-> s, init |-> Len(s) < MAX_CELL_SIZE]
NoStrParam == [s |-> << >>, init |-> FALSE]

\* selectFunction with an empty name: no selection.
NoSelection == [name |-> << >>, params |-> <<0, 0>>, str |-> StrParam(<< >>)]

\* The result of getFunctionFromArgs / parseInputArguments: ErrorInfo, whether
\* a NULL argument was dereferenced (crash), and what was parsed.
ParseError(err) == [err |-> err, crash |-> FALSE]
ParseCrash == [err |-> "", crash |-> TRUE]

\* The parameter loop of getFunctionFromArgs for function number j at args[pos].
RECURSIVE paramLoop(_, _, _, _, _, _)
RECURSIVE paramStep(_, _, _, _, _, _, _)
paramLoop(args, pos, j, k, params, str) ==
    IF k >= funcArgs[j]
    THEN [err |-> "", crash |-> FALSE, params |-> params, str |-> str]
    ELSE IF pos + k + 1 > Len(args) THEN ParseCrash
    ELSE paramStep(args, pos, j, k, params, str, toRowColNum(args[pos + k + 1], FALSE))

\* One parameter: n is what toRowColNum made of it.
paramStep(args, pos, j, k, params, str, n) ==
    IF n = INVALID_NUMBER /\ ~(FunctionNames[j] = CSET /\ k = 1)
    THEN ParseError("InvalidArgument")
    ELSE paramLoop(args, pos, j, k + 1, [params EXCEPT ![k + 1] = n],
                   IF n = INVALID_NUMBER THEN StrParam(args[pos + k + 1]) ELSE str)

\* The function found at args[pos], p being the result of its parameter loop.
foundFunction(pos, j, sel, p) ==
    IF p.crash \/ p.err # "" THEN [err |-> p.err, crash |-> p.crash]
    ELSE [err |-> "", crash |-> FALSE, pos |-> pos + funcArgs[j],
          function |-> [name |-> FunctionNames[j], params |-> p.params, str |-> p.str, sel |-> sel]]

\* The search loop of getFunctionFromArgs: j runs over functions[], and a
\* selector met on the way moves the position on and is kept in sel.
RECURSIVE findLoop(_, _, _, _)
RECURSIVE rowsSelection(_, _, _, _, _)
RECURSIVE textSelection(_, _, _, _)
findLoop(args, pos, j, sel) ==
    IF j > Len(FunctionNames) THEN ParseError("UnknownFunction")
    ELSE IF pos > Len(args) THEN ParseCrash
    ELSE IF args[pos] = FunctionNames[j]
    THEN foundFunction(pos, j, sel, paramLoop(args, pos, j, 0, <<0, 0>>, NoStrParam))
    ELSE IF args[pos] = ROWS
    THEN IF pos + 1 > Len(args) THEN ParseCrash
         ELSE IF pos + 2 > Len(args)
         THEN IF toRowColNum(args[pos + 1], TRUE) = INVALID_NUMBER THEN ParseError("InvalidArgument")
              ELSE ParseCrash
         ELSE rowsSelection(args, pos, j, toRowColNum(args[pos + 1], TRUE), toRowColNum(args[pos + 2], TRUE))
    ELSE IF args[pos] = BEGINSWITH \/ args[pos] = CONTAINS
    THEN IF pos + 1 > Len(args) THEN ParseCrash
         ELSE textSelection(args, pos, j, toRowColNum(args[pos + 1], FALSE))
    ELSE findLoop(args, pos, j + 1, sel)

\* The selection rows p0 p1
rowsSelection(args, pos, j, p0, p1) ==
    IF p0 = INVALID_NUMBER \/ p1 = INVALID_NUMBER THEN ParseError("InvalidArgument")
    ELSE IF p1 # LAST_ROW_NUMBER /\ p1 < p0 THEN ParseError("BadRowsOrder")
    ELSE findLoop(args, pos + 3, j + 1, [name |-> ROWS, params |-> <<p0, p1>>, str |-> StrParam(<< >>)])

\* The selections beginswith p0 STR and contains p0 STR
textSelection(args, pos, j, p0) ==
    IF p0 = INVALID_NUMBER THEN ParseError("InvalidArgument")
    ELSE IF pos + 2 > Len(args) THEN ParseCrash
    ELSE findLoop(args, pos + 3, j + 1, [name |-> args[pos], params |-> <<p0, 0>>, str |-> StrParam(args[pos + 2])])

\* getFunctionFromArgs(function, args, position)
getFunctionFromArgs(args, pos) == findLoop(args, pos, 1, NoSelection)

\* parseInputArguments(functions, args): the functions parsed from args[pos..].
RECURSIVE parseLoop(_, _, _)
RECURSIVE parseStep(_, _, _)
parseLoop(args, pos, functions) ==
    IF pos > Len(args) THEN [err |-> "", crash |-> FALSE, functions |-> functions]
    ELSE parseStep(args, functions, getFunctionFromArgs(args, pos))

\* One function: f is the result of getFunctionFromArgs.
parseStep(args, functions, f) ==
    IF f.crash \/ f.err # "" THEN [err |-> f.err, crash |-> f.crash, functions |-> functions]
    ELSE parseLoop(args, f.pos + 1, Append(functions, f.function))

parseInputArguments(args) == parseLoop(args, 1, << >>)

\* The string a char[MAX_CELL_SIZE] parameter reads as, gs being the bytes that
\* lie in (or behind) a buffer no terminated string was stored in.
ParamText(p, gs) == IF p.init THEN p.s ELSE p.s \o gs

\* A Function as main sees it.
Resolve(f, gs) == [name |-> f.name, params |-> f.params, str |-> ParamText(f.str, gs),
                   sel |-> [name |-> f.sel.name, params |-> f.sel.params, str |-> ParamText(f.sel.str, gs)]]

\* ------------------------------------------------------------- selection
\* strstr(value, pattern) != NULL
Contains(value, pattern) ==
    \E k \in 0..(Len(value) - Len(pattern)) : SubSeq(value, k + 1, k + Len(pattern)) = pattern
\* found != NULL && strcmp(found, value) == 0, found being the first occurrence
BeginsWith(value, pattern) ==
    Len(pattern) <= Len(value) /\ SubSeq(value, 1, Len(pattern)) = pattern

\* acceptsSelection(result, row, selection, delimiter, numberOfColumns): *result
acceptsSelection(row, selection, delimiter, noc, g) ==
    IF selection.name = ROWS
    THEN IF selection.params[1] # NO_SELECTION /\ selection.params[2] # LAST_ROW_NUMBER
         THEN row.number >= selection.params[1] /\ row.number <= selection.params[2]
         ELSE IF selection.params[1] = LAST_ROW_NUMBER /\ selection.params[2] = LAST_ROW_NUMBER
         THEN row.last
         ELSE IF selection.params[1] # NO_SELECTION /\ selection.params[2] = LAST_ROW_NUMBER
         THEN row.number >= selection.params[1]
         ELSE FALSE
    ELSE IF selection.name = BEGINSWITH
    THEN BeginsWith(getColumnValue(row, selection.params[1], delimiter, noc, g), selection.str)
    ELSE IF selection.name = CONTAINS
    THEN Contains(getColumnValue(row, selection.params[1], delimiter, noc, g), selection.str)
    ELSE TRUE

\* ------------------------------------------------------------ dispatchers
NoFunctionUsed(row, noc) == Result(row, noc, << >>, "NO_FUNCTION_USED", FALSE, FALSE)

\* An irow that fires on every row from the given one on.
irowFrom(row, function) == row.number >= function.params[1]

\* irow: row->number == function.params[0]
irowHere(row, function) == row.number = function.params[1]

\* applyTableEditingFunction(row, function, delimiter, numberOfColumns)
applyTableEditingFunction(row, function, delimiter, noc, g) ==
    IF function.name = IROW
    THEN Result(row, noc,
                IF irowHere(row, function) THEN <<writeNewRow(delimiter, noc, "irow")>> ELSE << >>,
                "", FALSE, FALSE)
    ELSE IF function.name = DROW THEN drows(function.params[1], function.params[1], row, noc)
    ELSE IF function.name = DROWS THEN drows(function.params[1], function.params[2], row, noc)
    ELSE IF function.name = ICOL THEN icol(function.params[1], row, delimiter, noc, g)
    ELSE IF function.name = ACOL THEN acol(row, delimiter, noc)
    ELSE IF function.name = DCOL THEN dcols(function.params[1], function.params[1], row, delimiter, noc)
    ELSE IF function.name = DCOLS THEN dcols(function.params[1], function.params[2], row, delimiter, noc)
    ELSE NoFunctionUsed(row, noc)

\* applyDataProcessingFunction(row, function, delimiter, numberOfColumns)
applyDataProcessingFunction(row, function, delimiter, noc, g) ==
    IF function.name = CSET THEN cset(function.params[1], function.str, row, delimiter, noc, g)
    ELSE IF function.name = TOLOWER THEN changeColumnCase(TRUE, function.params[1], row, delimiter, noc, g)
    ELSE IF function.name = TOUPPER THEN changeColumnCase(FALSE, function.params[1], row, delimiter, noc, g)
    ELSE IF function.name = ROUND THEN roundColumnValue(function.params[1], row, delimiter, noc, g)
    ELSE IF function.name = INT THEN removeColumnDecimalPart(function.params[1], row, delimiter, noc, g)
    ELSE IF function.name = COPY THEN copy(function.params[1], function.params[2], row, delimiter, noc, g)
    ELSE IF function.name = SWAP THEN swap(function.params[1], function.params[2], row, delimiter, noc, g)
    ELSE IF function.name = MOVE THEN move(function.params[1], function.params[2], row, delimiter, noc, g)
    ELSE NoFunctionUsed(row, noc)

\* applyAppendRowFunctions(args, delimiter, numberOfColumns): one new row for
\* every argument that reads "arow".
applyAppendRowFunctions(args, delimiter, noc) ==
    LET hits == SelectSeq(args, LAMBDA t : t = AROW)
    IN  [k \in 1..Len(hits) |-> writeNewRow(delimiter, noc, "arow")]

\* ------------------------------------------------------------------ state
VARIABLES
    args,             \* argv after the program path and the -d option
    delimiters,       \* the delimiter string (argument of -d, or " ")
    stdin,            \* the lines of standard input
    fpos,             \* how many of them fgets has read
    preloadedData,    \* the line read ahead by loadRow
    row,              \* Row row of main
    delimiter,        \* char delimiter
    numberOfColumns,  \* int numberOfColumns
    inputNumOfCols,   \* int inputNumOfCols
    functions,        \* Function functions[], as parsed for the current row
    i,                \* index of the function the loop is at
    tableChanged,     \* bool tableChanged
    dataChanged,      \* bool dataChanged
    out,              \* the calls that wrote a row to stdout, in order
    err,              \* the message given to writeErrorMessage ("" for none)
    pc,               \* where main is: "load", "loop", "break", "done", "failed", "crashed"
    applied,          \* the functions applied to the current row so far: <<index, kind>>
    oob               \* an index outside a row buffer has been used

vars == <<args, delimiters, stdin, fpos, preloadedData, row, delimiter, numberOfColumns, inputNumOfCols,
          functions, i, tableChanged, dataChanged, out, err, pc, applied, oob>>

\* ----------------------------------------------------------------- inputs
Num(n) == NatToStr(n)
\* What the program arguments write as row and column numbers.
ArgNums == 1..MaxArg
\* Values given to cset: a word, a number and a function name.
CsetValues == {<<"X">>, <<"5">>, AROW}
\* Strings found in a parameter buffer that was never written.
GarbageStrings == {<< >>, <<"g">>}

FunctionPhrases ==
    {<<AROW>>, <<ACOL>>}
    \cup {<<f, Num(n)>> : f \in {IROW, DROW, ICOL, DCOL, TOLOWER}, n \in ArgNums}
    \cup {<<f, Num(p[1]), Num(p[2])>> : f \in {DROWS, DCOLS}, p \in {q \in ArgNums \X ArgNums : q[1] # q[2]}}
    \cup {<<CSET, Num(c), v>> : c \in ArgNums, v \in CsetValues}
SelectorPhrases == {<< >>, <<ROWS, Num(MaxArg), <<"-">>>>}
Commands == {s \o f : s \in SelectorPhrases, f \in FunctionPhrases}

RECURSIVE Flatten(_)
Flatten(ss) == IF ss = << >> THEN << >> ELSE Head(ss) \o Flatten(Tail(ss))

SeqsUpTo(S, n) == UNION {[1..m -> S] : m \in 0..n}

ArgLists == {Flatten(cs) : cs \in SeqsUpTo(Commands, MaxFuncs)}

\* The text of column c of an input row.
ColText == <<"a", "B", "x", "O">>
\* An input line of n columns, with or without its newline.
RECURSIVE Cells(_)
Cells(n) == IF n = 1 THEN <<ColText[1]>> ELSE Cells(n - 1) \o <<",", ColText[n]>>
Line(n, nl) == IF nl THEN Append(Cells(n), NL) ELSE Cells(n)
\* stdin: up to MaxRows lines of 1..MaxCols columns; the last line may lack
\* its newline.
Inputs ==
    {<< >>} \cup
    {[k \in 1..Len(shape) |-> Line(shape[k], k < Len(shape) \/ nl)] :
        shape \in (SeqsUpTo(1..MaxCols, MaxRows) \ {<< >>}), nl \in BOOLEAN}

NewRow == [data |-> ZeroBuf, size |-> 0, number |-> 0, deleted |-> FALSE, last |-> FALSE]

Init ==
    /\ args \in ArgLists
    /\ delimiters = <<",">>
    /\ stdin \in Inputs
    /\ fpos = 0
    /\ preloadedData = << >>
    /\ row = NewRow
    /\ delimiter = NUL
    /\ numberOfColumns = 0
    /\ inputNumOfCols = 0
    /\ functions = << >>
    /\ i = 0
    /\ tableChanged = FALSE
    /\ dataChanged = FALSE
    /\ out = << >>
    /\ err = ""
    /\ pc = "load"
    /\ applied = << >>
    /\ oob = FALSE

\* ------------------------------------- inputs: one command on one row
\* Cells of letters, of different lengths.
WordCells == {<< >>, <<"x">>, <<"y", "z">>}
\* Cells that are, or look like, numbers.
NumberCells == {<<"7">>, <<"0", "0", "7">>, <<"2", ".", "5">>, <<"3", ".", "5">>, <<"1", ".", "9">>,
                <<"0", "7", ".", "5">>, <<"-", "1", ".", "5">>, <<"-", "0", ".", "5">>, <<"1", ".">>,
                <<".", "5">>, <<".">>, <<"-">>, <<"1", "x">>, <<"x", "1">>, <<"1", ".", ".", "2">>,
                <<"1", "-", "2">>, <<"+", "5">>}
\* A cell that fills a char[MAX_CELL_SIZE] buffer.
FullCell == [k \in 1..MAX_CELL_SIZE |-> "a"]

\* The cells joined with the delimiter ",".
RECURSIVE JoinCells(_)
JoinCells(cells) == IF Len(cells) = 1 THEN cells[1]
                    ELSE JoinCells(SubSeq(cells, 1, Len(cells) - 1)) \o <<",">> \o cells[Len(cells)]

\* stdin: one line, with or without its newline.
CellLines ==
    {JoinCells(c) : c \in UNION {[1..n -> WordCells] : n \in 1..MaxWide}}
    \cup {JoinCells(<<c, <<"k">>>>) : c \in NumberCells \cup {FullCell}}
CellInputs == {<<Append(l, NL)>> : l \in CellLines} \cup {<<l>> : l \in CellLines \ {<< >>}}

\* Column numbers written in the arguments: those of the row, and one more.
WideNums == 1..(MaxWide + 1)
\* Tokens that are not whole positive integers.
OddNumbers == {<<"0">>, <<"-", "1">>, <<"x">>, <<"3", "x">>, <<"1", ".", "5">>, <<"+", "2">>, <<" ", "2">>}
\* argv: one command (two for dcol n icol n).
CellArgLists ==
    {<<f, Num(a), Num(b)>> : f \in {SWAP, MOVE}, a \in WideNums, b \in WideNums}
    \cup {<<ACOL>>}
    \cup {<<f, Num(c)>> : f \in {ROUND, INT}, c \in 1..2}
    \cup {<<DCOL, Num(n), ICOL, Num(n)>> : n \in 1..MaxWide}
    \cup {<<f, Num(c), p, CSET, Num(1), <<"X">>>> : f \in {BEGINSWITH, CONTAINS}, c \in WideNums,
                                                   p \in {<< >>, <<"x">>}}
    \cup {<<CSET, Num(1), v>> : v \in {<<"X">>, <<"w", "x", "y", "z">>}}
    \cup {<<COPY, Num(c), Num(c)>> : c \in WideNums}
    \cup {<<DCOL, t>> : t \in OddNumbers}
    \cup {<<CSET, t, <<"X">>>> : t \in OddNumbers}
    \cup {<<SWAP, Num(1), t>> : t \in OddNumbers}
    \cup {<<ROWS, t, <<"-">>, CSET, Num(1), <<"X">>>> : t \in OddNumbers}
    \cup {<<ROWS, Num(1), t, CSET, Num(1), <<"X">>>> : t \in OddNumbers}
    \cup {<<BEGINSWITH, t, <<"x">>, CSET, Num(1), <<"X">>>> : t \in OddNumbers}

CellInit ==
    /\ args \in CellArgLists
    /\ delimiters = <<",">>
    /\ stdin \in CellInputs
    /\ fpos = 0
    /\ preloadedData = << >>
    /\ row = NewRow
    /\ delimiter = NUL
    /\ numberOfColumns = 0
    /\ inputNumOfCols = 0
    /\ functions = << >>
    /\ i = 0
    /\ tableChanged = FALSE
    /\ dataChanged = FALSE
    /\ out = << >>
    /\ err = ""
    /\ pc = "load"
    /\ applied = << >>
    /\ oob = FALSE

\* ---------------------------------------------------------------- actions
\* loadRow(&row, preloadedData) returns true
CanLoad == ~row.last /\ (row.number # 0 \/ fpos < Len(stdin))

\* The row and the read-ahead after loadRow.
loadRow ==
    LET first == row.number = 0
        line == IF first THEN stdin[fpos + 1] ELSE preloadedData
        pos == IF first THEN fpos + 1 ELSE fpos
        eof == pos >= Len(stdin)
        data == PutStr(Clear(row.data, row.size), line)
    IN  [row |-> [data |-> data, size |-> strlen(data), number |-> row.number + 1,
                  deleted |-> FALSE, last |-> eof],
         preloadedData |-> IF eof THEN line ELSE stdin[pos + 1],
         fpos |-> IF eof THEN pos ELSE pos + 1]

Fail(message) == /\ err' = message
                 /\ pc' = "failed"

\* A column check against the shared count instead of the input's.
ColumnCountDiffersFromShared(r, d, inCols, noc) == countColumns(r, d) # noc

\* main: countColumns(&row, delimiter) != inputNumOfCols
ColumnCountDiffers(r, d, inCols, noc) == countColumns(r, d) # inCols

\* A main that does not look at dataChanged.
SecondDataFunctionIgnored(changed) == FALSE

\* main: dataChanged == true, before acceptsSelection is called
SecondDataFunction(changed) == changed

\* main: err.message == NULL after applyDataProcessingFunction
DataFunctionUsed(p) == p.err = ""

\* main: row.deleted == false, before writeProcessedRow
RowIsWritten(r) == ~r.deleted

\* main after loadRow: the delimiter unification, verifyRow (v),
\* parseInputArguments (p) and the column count check on the row r.
RowLoaded(ld, r, d, v, p) ==
    /\ row' = r
    /\ fpos' = ld.fpos
    /\ preloadedData' = ld.preloadedData
    /\ delimiter' = d
    /\ i' = 0
    /\ tableChanged' = FALSE
    /\ dataChanged' = FALSE
    /\ applied' = << >>
    /\ UNCHANGED <<args, delimiters, stdin, out, oob>>
    /\ IF v # ""
       THEN Fail(v) /\ UNCHANGED <<functions, numberOfColumns, inputNumOfCols>>
       ELSE IF p.crash
       THEN pc' = "crashed" /\ UNCHANGED <<functions, numberOfColumns, inputNumOfCols, err>>
       ELSE IF p.err # ""
       THEN Fail(p.err) /\ UNCHANGED <<functions, numberOfColumns, inputNumOfCols>>
       ELSE /\ \E gs \in GarbageStrings : functions' = [k \in 1..Len(p.functions) |-> Resolve(p.functions[k], gs)]
            /\ IF r.number = 1
               THEN /\ inputNumOfCols' = countColumns(r, d)
                    /\ numberOfColumns' = countColumns(r, d)
                    /\ pc' = "loop"
                    /\ err' = err
               ELSE /\ UNCHANGED <<inputNumOfCols, numberOfColumns>>
                    /\ IF ColumnCountDiffers(r, d, inputNumOfCols, numberOfColumns)
                       THEN Fail("InconsistentColumnCount")
                       ELSE pc' = "loop" /\ err' = err

RowUnified(ld, r, d) == RowLoaded(ld, r, d, verifyRow(r, d), parseInputArguments(args))

RowRead(ld) == RowUnified(ld, unifyRowDelimiters(ld.row, delimiters), delimiters[1])

\* One pass of main's row loop up to the function loop: loadRow, the delimiter
\* unification, verifyRow, parseInputArguments and the column count check.
StartRow ==
    /\ pc = "load"
    /\ CanLoad
    /\ RowRead(loadRow)

\* main after applyTableEditingFunction has used the function: t is what it
\* handed back.
TableEdited(function, t) ==
    /\ row' = t.row
    /\ numberOfColumns' = t.noc
    /\ out' = out \o t.out
    /\ oob' = (oob \/ t.oob)
    /\ applied' = IF t.err = "" /\ ~t.crash THEN Append(applied, <<i, "table">>) ELSE applied
    /\ UNCHANGED dataChanged
    /\ IF t.crash THEN pc' = "crashed" /\ UNCHANGED <<err, i, tableChanged>>
       ELSE IF t.err # "" THEN Fail(t.err) /\ UNCHANGED <<i, tableChanged>>
       ELSE IF function.sel.name # << >>
       THEN Fail("SelectionOnTableEdit") /\ UNCHANGED <<i, tableChanged>>
       ELSE IF t.row.deleted
       THEN pc' = "break" /\ UNCHANGED <<err, i, tableChanged>>
       ELSE /\ tableChanged' = TRUE
            /\ i' = i + 1
            /\ UNCHANGED <<err, pc>>

\* main after applyDataProcessingFunction: p is what it handed back.
DataProcessed(p) ==
    /\ row' = p.row
    /\ oob' = (oob \/ p.oob)
    /\ applied' = IF p.err = "" /\ ~p.crash THEN Append(applied, <<i, "data">>) ELSE applied
    /\ UNCHANGED <<numberOfColumns, out, tableChanged>>
    /\ IF p.crash THEN pc' = "crashed" /\ UNCHANGED <<err, i, dataChanged>>
       ELSE IF p.err \notin {"", "NO_FUNCTION_USED"} THEN Fail(p.err) /\ UNCHANGED <<i, dataChanged>>
       ELSE /\ dataChanged' = DataFunctionUsed(p)
            /\ i' = i + 1
            /\ UNCHANGED <<err, pc>>

\* The body of the function loop for one function: the table editing attempt
\* (t), then the check of dataChanged, acceptsSelection and the data
\* processing attempt.
FunctionTried(function, g, t) ==
    IF t.err # "NO_FUNCTION_USED"
    THEN TableEdited(function, t)
    ELSE IF SecondDataFunction(dataChanged)
    THEN Fail("MultipleDataFunctions")
         /\ UNCHANGED <<row, numberOfColumns, out, oob, applied, i, tableChanged, dataChanged>>
    ELSE IF ~acceptsSelection(row, function.sel, delimiter, numberOfColumns, g)
    THEN /\ i' = i + 1
         /\ UNCHANGED <<row, numberOfColumns, out, oob, applied, tableChanged, dataChanged, err, pc>>
    ELSE DataProcessed(applyDataProcessingFunction(row, function, delimiter, numberOfColumns, g))

\* One pass of the function loop.
ApplyFunction ==
    /\ pc = "loop"
    /\ i < Len(functions)
    /\ \E g \in Behind :
        FunctionTried(functions[i + 1], g,
                      applyTableEditingFunction(row, functions[i + 1], delimiter, numberOfColumns, g))
    /\ UNCHANGED <<args, delimiters, stdin, fpos, preloadedData, delimiter, inputNumOfCols, functions>>

\* After the function loop: the check of the two flags, and the row written.
EndRow ==
    /\ \/ pc = "loop" /\ i >= Len(functions)
       \/ pc = "break"
    /\ IF tableChanged /\ dataChanged
       THEN Fail("MixedEditCategories") /\ UNCHANGED out
       ELSE /\ out' = IF RowIsWritten(row) THEN Append(out, writeProcessedRow(row)) ELSE out
            /\ pc' = "load"
            /\ UNCHANGED err
    /\ UNCHANGED <<args, delimiters, stdin, fpos, preloadedData, row, delimiter, numberOfColumns,
                   inputNumOfCols, functions, i, tableChanged, dataChanged, applied, oob>>

\* loadRow returns false: the empty input check and the appended rows.
EndOfInput ==
    /\ pc = "load"
    /\ ~CanLoad
    /\ IF row.number = 0
       THEN Fail("EmptyInput") /\ UNCHANGED out
       ELSE /\ out' = out \o applyAppendRowFunctions(args, delimiter, numberOfColumns)
            /\ pc' = "done"
            /\ UNCHANGED err
    /\ UNCHANGED <<args, delimiters, stdin, fpos, preloadedData, row, delimiter, numberOfColumns,
                   inputNumOfCols, functions, i, tableChanged, dataChanged, applied, oob>>

Next == StartRow \/ ApplyFunction \/ EndRow \/ EndOfInput

Spec == Init /\ [][Next]_vars

\* The runs of one command on one row.
CellSpec == CellInit /\ [][Next]_vars

\* ------------------------------------------------- vocabulary of the claims
TableEditingNames == {IROW, DROW, DROWS, ICOL, ACOL, DCOL, DCOLS}
DataProcessingNames == {CSET, TOLOWER, TOUPPER, ROUND, INT, COPY, SWAP, MOVE}

\* The functions of kind ("table" or "data") applied to the current row.
AppliedOf(a, kind) == {k \in 1..Len(a) : a[k][2] = kind}

\* The function the loop is about to try.
AtFunction == pc = "loop" /\ i < Len(functions)

\* The cells of a line of text: split at the delimiter d.
RECURSIVE SplitCells(_, _)
SplitCells(text, d) ==
    IF \E k \in 1..Len(text) : text[k] = d
    THEN LET k == CHOOSE m \in 1..Len(text) : text[m] = d /\ \A q \in 1..(m - 1) : text[q] # d
         IN  <<SubSeq(text, 1, k - 1)>> \o SplitCells(SubSeq(text, k + 1, Len(text)), d)
    ELSE <<text>>

\* The columns of a row that ends with a newline.
RowCells(r, d) == SplitCells(SubSeq(CStr(r.data), 1, strlen(r.data) - 1), d)

\* The number of columns a written line has.
TextCols(text, d) == 1 + Cardinality({k \in 1..Len(text) : text[k] = d})

\* What was written, without the text: <<call, row number>>.
Tags(o) == [k \in 1..Len(o) |-> <<o[k].call, o[k].number>>]

IsPrefix(s, t) == Len(s) <= Len(t) /\ SubSeq(t, 1, Len(s)) = s

\* The numbers of the input rows written, in the order written.
WrittenNumbers(o) == LET w == SelectSeq(o, LAMBDA e : e.call = "writeProcessedRow")
                     IN  [k \in 1..Len(w) |-> w[k].number]

\* Row number n lies in the range of a drow/drows of the function list.
InDeletedRange(n) ==
    \E k \in 1..Len(functions) :
        \/ functions[k].name = DROW /\ n = functions[k].params[1]
        \/ functions[k].name = DROWS /\ functions[k].params[1] <= n /\ n <= functions[k].params[2]

\* The numbers 1..n outside every such range, ascending.
RECURSIVE KeptRows(_)
KeptRows(n) == IF n = 0 THEN << >>
               ELSE IF InDeletedRange(n) THEN KeptRows(n - 1) ELSE Append(KeptRows(n - 1), n)

\* -------------------------------------------------------------------- C1
\* C1: cset col value, col <= N, replaces column col with exactly the value
\* given on the command line (a value that reads as a number included) and
\* leaves every other column and the number of columns as they were.  Stated
\* for a command list that starts with cset and a row that ends with a newline.
C1_CsetSetsExactValue ==
    [][(/\ pc = "loop" /\ i = 0 /\ i' = 1
        /\ Len(args) >= 3 /\ args[1] = CSET
        /\ strtol(args[2]) <= numberOfColumns
        /\ row.size > 0 /\ row.data[row.size - 1] = NL)
       => RowCells(row', delimiter) = [RowCells(row, delimiter) EXCEPT ![strtol(args[2])] = args[3]]]_vars

\* -------------------------------------------------------------------- C2
\* C2: when SelectionOnTableEdit is raised the table editing function has had
\* no effect: nothing was written, the row is as it was (not marked deleted),
\* and the shared column count is unchanged.
C2_SelectionCheckedBeforeApply ==
    [][(err = "" /\ err' = "SelectionOnTableEdit")
       => (out' = out /\ row' = row /\ numberOfColumns' = numberOfColumns)]_vars

\* -------------------------------------------------------------------- C3
\* C3: no run completes after a data processing function and a table editing
\* function (a drow/drows that deletes the row included) were both applied to
\* the same row.
C3_NoCompletionAfterBothCategories ==
    pc = "done" => ~(AppliedOf(applied, "table") # {} /\ AppliedOf(applied, "data") # {})

\* -------------------------------------------------------------------- C4
\* C4: at most one data processing function is applied to a row; once one
\* has been applied, reaching another data processing function fails with
\* MultipleDataFunctions, whatever its predicate says of the row, and leaves
\* the row alone; a data processing function whose predicate rejects the row
\* changes nothing, raises nothing and does not count as applied.
C4_Step ==
    /\ Cardinality(AppliedOf(applied', "data")) <= 1
    /\ (AtFunction /\ functions[i + 1].name \in DataProcessingNames /\ AppliedOf(applied, "data") # {})
       => (pc' = "failed" /\ err' = "MultipleDataFunctions" /\ row' = row /\ applied' = applied)
    /\ (/\ AtFunction /\ functions[i + 1].name \in DataProcessingNames /\ AppliedOf(applied, "data") = {}
        /\ \A g \in Behind : ~acceptsSelection(row, functions[i + 1].sel, delimiter, numberOfColumns, g))
       => (pc' = "loop" /\ i' = i + 1 /\ err' = err /\ row' = row /\ applied' = applied /\ dataChanged' = FALSE)

C4_AtMostOneDataFunction == [][C4_Step]_vars

\* MultipleDataFunctions raised at a function whose predicate rejects the row.
C4_Witness ==
    /\ pc = "failed" /\ err = "MultipleDataFunctions"
    /\ AppliedOf(applied, "data") # {}
    /\ i < Len(functions) /\ functions[i + 1].sel.name = ROWS
    /\ \A g \in Behind : ~acceptsSelection(row, functions[i + 1].sel, delimiter, numberOfColumns, g)

\* -------------------------------------------------------------------- C5
\* C5: a row is marked deleted iff its number lies in the range of a
\* drow/drows (from <= to) of the list; the drow/drows is the last function
\* applied to it; a row in such a range is never written; and a run that
\* completes has written every other row, in input order.
C5_DrowsDeletesExactlyTheRange ==
    /\ row.deleted => /\ InDeletedRange(row.number)
                      /\ applied # << >> /\ applied[Len(applied)] = <<i, "table">>
                      /\ functions[i + 1].name \in {DROW, DROWS}
    /\ (pc = "break") => row.deleted
    /\ (pc = "loop" /\ i >= Len(functions)) => (~row.deleted /\ ~InDeletedRange(row.number))
    /\ \A k \in 1..Len(out) : out[k].call = "writeProcessedRow" => ~InDeletedRange(out[k].number)
    /\ (pc = "done") => WrittenNumbers(out) = KeptRows(Len(stdin))

\* drow 1 on two rows: only the second one is written.
C5_Witness ==
    /\ pc = "done" /\ args = <<DROW, Num(1)>> /\ Len(stdin) = 2
    /\ WrittenNumbers(out) = <<2>> /\ out[1].text = stdin[2]

RECURSIVE IrowExpected(_, _)
IrowExpected(k, n) ==
    IF k = 0 THEN << >>
    ELSE IrowExpected(k - 1, n) \o (IF k = n THEN <<<<"writeNewRow", 0>>>> ELSE << >>)
                                \o <<<<"writeProcessedRow", k>>>>

\* C7: with irow n as the command list, what is written is at every moment a
\* prefix of: rows 1..n-1, one blank row, row n, the rows after it; a run
\* that completes has written all of it. So there is exactly one blank row
\* when n is at most the number of input rows, it comes after rows 1..n-1 and
\* before anything of row n, and there is none when n is larger.
C7_IrowWritesOneRowBeforeRowN ==
    (Len(args) = 2 /\ args[1] = IROW) =>
        /\ IsPrefix(Tags(out), IrowExpected(Len(stdin), strtol(args[2])))
        /\ (pc = "done") => Tags(out) = IrowExpected(Len(stdin), strtol(args[2]))

\* irow 2 on two rows: row 1, the blank row, row 2.
C7_Witness ==
    /\ pc = "done" /\ args = <<IROW, Num(2)>> /\ Len(stdin) = 2
    /\ Tags(out) = <<<<"writeProcessedRow", 1>>, <<"writeNewRow", 0>>, <<"writeProcessedRow", 2>>>>

\* -------------------------------------------------------------------- C8
\* C8: on a run that completes, every blank row written by irow or arow has
\* as many columns as every data row written in the same run.  Stated for
\* command lists made of irow, arow, icol, acol, dcol and dcols, and input
\* lines that all end with a newline.
C8_BlankRowsHaveTheTableWidth ==
    (/\ pc = "done"
     /\ \A k \in 1..Len(functions) : functions[k].name \in {IROW, AROW, ICOL, ACOL, DCOL, DCOLS}
     /\ \A k \in 1..Len(stdin) : stdin[k][Len(stdin[k])] = NL)
    => \A b \in 1..Len(out) : \A r \in 1..Len(out) :
           (out[b].call = "writeNewRow" /\ out[r].call = "writeProcessedRow")
               => TextCols(out[b].text, delimiter) = TextCols(out[r].text, delimiter)

\* -------------------------------------------------------------------- C9
\* C9: on a run that completes, the shared column count is the input's
\* column count plus the number of icol/acol functions of the list, lists
\* with drow/drows included.
C9_ColumnCountRaisedByK ==
    pc = "done" =>
        numberOfColumns = inputNumOfCols
            + Cardinality({k \in 1..Len(functions) : functions[k].name \in {ICOL, ACOL}})

\* ------------------------------------------------------------------- C10
InconsistentRow(n) == n >= 2 /\ TextCols(stdin[n], delimiters[1]) # TextCols(stdin[1], delimiters[1])

\* C10: a row k >= 2 whose column count differs from row 1's makes the run
\* fail with InconsistentColumnCount as soon as it is loaded, before any of
\* its functions is applied and with nothing written; nothing happens after
\* a failure; and the error is raised for such a row only, whatever the
\* functions of the list have done to the shared column count.
C10_Step ==
    /\ pc # "failed"
    /\ (err = "" /\ err' = "InconsistentColumnCount")
       => (InconsistentRow(row'.number) /\ out' = out /\ applied' = << >>)
    /\ (pc = "load" /\ row'.number = row.number + 1 /\ InconsistentRow(row'.number))
       => (pc' = "failed" /\ err' = "InconsistentColumnCount" /\ out' = out /\ applied' = << >>)

C10_ColumnCountCheckedFirst == [][C10_Step]_vars

\* Row 2 refused where the command list holds an icol.
C10_Witness ==
    /\ pc = "failed" /\ err = "InconsistentColumnCount" /\ row.number = 2
    /\ \E k \in 1..Len(args) : args[k] = ICOL

\* ------------------------------------- vocabulary: one command on one row
\* A line without its newline.
Unterminated(text) ==
    IF Len(text) > 0 /\ text[Len(text)] = NL THEN SubSeq(text, 1, Len(text) - 1) ELSE text

\* The cells of the one input line.
InputCells == SplitCells(Unterminated(stdin[1]), delimiters[1])

\* The cells of the line written for it.
OutputCells == SplitCells(Unterminated(out[1].text), delimiters[1])

\* The run has completed and has written one line, which ends with a newline.
OneLineWritten ==
    /\ pc = "done" /\ err = "" /\ Len(out) = 1
    /\ Len(out[1].text) > 0 /\ out[1].text[Len(out[1].text)] = NL

\* The cells with those of columns a and b exchanged.
Exchanged(cells, a, b) ==
    [k \in 1..Len(cells) |-> IF k = a THEN cells[b] ELSE IF k = b THEN cells[a] ELSE cells[k]]

\* ------------------------------------------------------------------- C11
\* C11: a run of swap a b on one row never fails, and when it has completed
\* it has written one line: with a and b within the N columns of the row,
\* the row's cells with those of columns a and b exchanged, the other cells
\* and the number of columns unchanged; with a or b above N, the row's cells
\* as they were.
C11_SwapExchangesTheTwoValues ==
    \A a \in WideNums : \A b \in WideNums :
        (args = <<SWAP, Num(a), Num(b)>>) =>
            /\ pc \notin {"failed", "crashed"}
            /\ (pc = "done") =>
                  /\ OneLineWritten
                  /\ OutputCells = IF a <= Len(InputCells) /\ b <= Len(InputCells)
                                   THEN Exchanged(InputCells, a, b)
                                   ELSE InputCells

\* ------------------------------------------------------------------- C12
\* The cells with that of column c taken out and put back right before the
\* cell that was in column b.
Moved(cells, c, b) ==
    LET rest == SubSeq(cells, 1, c - 1) \o SubSeq(cells, c + 1, Len(cells))
        at == IF c < b THEN b - 1 ELSE b
    IN  SubSeq(rest, 1, at - 1) \o <<cells[c]>> \o SubSeq(rest, at, Len(rest))

\* C12: a run of move col beforeCol, col # beforeCol and both within the N
\* columns, on one row that ends with a newline and that has completed has
\* written one line: the row's cells with the cell of column col removed
\* and put back right before the cell that was in column beforeCol, N cells
\* as before.
C12_MoveReinsertsBeforeTheTarget ==
    \A c \in WideNums : \A b \in WideNums :
        (/\ args = <<MOVE, Num(c), Num(b)>> /\ c # b
         /\ stdin[1][Len(stdin[1])] = NL
         /\ c <= Len(InputCells) /\ b <= Len(InputCells)
         /\ pc = "done")
        => (OneLineWritten /\ OutputCells = Moved(InputCells, c, b))

\* ------------------------------------------------------------------- C13
\* C13: a run of move col beforeCol with col < beforeCol, both within the N
\* columns of the row, does not complete and writes no row: the only way it
\* ends is the failure MoveOrderError.
C13_MoveBeforeALaterColumnFails ==
    \A c \in WideNums : \A b \in WideNums :
        (args = <<MOVE, Num(c), Num(b)>> /\ c < b /\ b <= Len(InputCells))
        => /\ pc # "done"
           /\ out = << >>
           /\ (pc = "failed") => err = "MoveOrderError"

\* ------------------------------------------------------------------- C14
\* Numeric text: an optional leading '-', then digits, then optionally one
\* '.' followed by digits.
IsNumeric(text) ==
    LET body == IF Len(text) > 0 /\ text[1] = "-" THEN Tail(text) ELSE text
    IN  /\ Len(body) > 0
        /\ \A k \in 1..Len(body) : body[k] \in DigitSet \cup {"."}
        /\ Cardinality({k \in 1..Len(body) : body[k] = "."}) <= 1
        /\ body[1] # "." /\ body[Len(body)] # "."

\* C14: a run of round c or int c on one row that ends with a newline, c
\* within its columns: when the cell of column c is numeric text the run
\* does not fail; when it is not, the run does not complete, writes no row,
\* and the failure it ends with is InvalidNumber.
C14_NumericCellsExactly ==
    \A f \in {ROUND, INT} : \A c \in 1..2 :
        (/\ args = <<f, Num(c)>>
         /\ stdin[1][Len(stdin[1])] = NL
         /\ c <= Len(InputCells))
        => IF IsNumeric(InputCells[c])
           THEN pc # "failed"
           ELSE /\ pc # "done"
                /\ out = << >>
                /\ (pc = "failed") => err = "InvalidNumber"

\* ------------------------------------------------------------------- C15
\* The text before the first '.', the whole text when it has none.
BeforeDot(text) ==
    IF \E k \in 1..Len(text) : text[k] = "."
    THEN SubSeq(text, 1, (CHOOSE k \in 1..Len(text) : text[k] = "." /\ \A m \in 1..(k - 1) : text[m] # ".") - 1)
    ELSE text

\* C15: a run of int c on one row that ends with a newline, the cell of
\* column c being numeric text, that has completed has written one line: the
\* row's cells, that of column c cut before its first '.' with its sign and
\* its digits as they were written, the others unchanged.
C15_IntKeepsTheTextBeforeTheDot ==
    \A c \in 1..2 :
        (/\ args = <<INT, Num(c)>>
         /\ stdin[1][Len(stdin[1])] = NL
         /\ c <= Len(InputCells)
         /\ IsNumeric(InputCells[c])
         /\ pc = "done")
        => (OneLineWritten /\ OutputCells = [InputCells EXCEPT ![c] = BeforeDot(@)])

\* ------------------------------------------------------------------- C16
\* C16: a run of acol on one row, with or without its newline, short enough
\* for one more column to fit, does not fail, and when it has completed it
\* has written one line: the text of the row, the delimiter, a newline.
C16_AcolAppendsOneEmptyColumn ==
    (args = <<ACOL>> /\ Len(Unterminated(stdin[1])) + 2 < MAX_ROW_SIZE)
    => /\ pc \notin {"failed", "crashed"}
       /\ (pc = "done") =>
             (Len(out) = 1 /\ out[1].text = Unterminated(stdin[1]) \o <<delimiters[1], NL>>)

\* ------------------------------------------------------------------- C17
\* C17: a run whose selection is beginswith c p or contains c p, with c above
\* the number of columns of the row, does not complete and writes no row,
\* whatever the pattern p, the empty one included: the failure it ends with
\* is ColumnNotFound.
C17_LookupOutOfRangeStopsTheRun ==
    \A f \in {BEGINSWITH, CONTAINS} : \A c \in WideNums : \A p \in {<< >>, <<"x">>} :
        (args = <<f, Num(c), p, CSET, Num(1), <<"X">>>> /\ c > Len(InputCells))
        => /\ pc # "done"
           /\ out = << >>
           /\ (pc = "failed") => err = "ColumnNotFound"

\* ------------------------------------------------------------------- C18
\* C18: a run of cset 1 v on one row that ends with a newline, where the row
\* with v in place of the cell of column 1 is longer than MAX_ROW_SIZE, does
\* not complete and writes no row, truncated or not: the failure it ends
\* with is RowOverflow.
C18_TooLongARowIsRefused ==
    \A v \in {<<"X">>, <<"w", "x", "y", "z">>} :
        (/\ args = <<CSET, Num(1), v>>
         /\ stdin[1][Len(stdin[1])] = NL
         /\ Len(stdin[1]) - Len(InputCells[1]) + Len(v) > MAX_ROW_SIZE)
        => /\ pc # "done"
           /\ out = << >>
           /\ (pc = "failed") => err = "RowOverflow"

\* ------------------------------------------------------------------- C19
\* Tokens that are not a whole positive integer: "0", a negative number, a
\* word, digits followed by another character, a decimal fraction.
NotPositiveIntegers == {<<"0">>, <<"-", "1">>, <<"x">>, <<"3", "x">>, <<"1", ".", "5">>}

\* Argument lists with the token t where a number is expected: the column of
\* dcol and of cset, the second column of swap, the from and the to of rows,
\* the column of beginswith.
WithNumber(t) ==
    {<<DCOL, t>>, <<CSET, t, <<"X">>>>, <<SWAP, Num(1), t>>,
     <<ROWS, t, <<"-">>, CSET, Num(1), <<"X">>>>, <<ROWS, Num(1), t, CSET, Num(1), <<"X">>>>,
     <<BEGINSWITH, t, <<"x">>, CSET, Num(1), <<"X">>>>}

\* C19: a run whose arguments hold, where a number is expected, a token that
\* is not a whole positive integer does not complete and writes no row: the
\* failure it ends with is InvalidArgument.
C19_OnlyWholePositiveIntegers ==
    \A t \in NotPositiveIntegers :
        (args \in WithNumber(t))
        => /\ pc # "done"
           /\ out = << >>
           /\ (pc = "failed") => err = "InvalidArgument"

\* ------------------------------------------------------------------- C20
\* C20: a run of dcol n icol n on one row that ends with a newline, n within
\* its N columns (n = N included), that has completed has written one line
\* that ends with its only newline and has N cells again: the cells of the
\* row in their order, that of column n empty.
C20_DeleteThenInsertRestoresTheWidth ==
    \A n \in 1..MaxWide :
        (/\ args = <<DCOL, Num(n), ICOL, Num(n)>>
         /\ stdin[1][Len(stdin[1])] = NL
         /\ n <= Len(InputCells)
         /\ pc = "done")
        => (OneLineWritten /\ OutputCells = [InputCells EXCEPT ![n] = << >>])

\* ------------------------------------------------------------------- C21
\* copy c c reads column c with getColumnValue and writes the value read
\* back into column c with setColumnValue.
\* C21: in a run of copy c c on one row, with or without its newline, c
\* within the column count, the step that applies the function ends inside
\* the program and leaves the bytes of the row and its size as they were,
\* for the last column as for the others.
C21_Step ==
    \A c \in WideNums :
        (args = <<COPY, Num(c), Num(c)>> /\ pc = "loop" /\ c <= numberOfColumns)
        => (pc' # "crashed" /\ row'.data = row.data /\ row'.size = row.size)

C21_ReadThenWriteBackChangesNothing == [][C21_Step]_vars

\* ------------------------------------------------------------------- C22
\* C22: in every reachable state, no function applied so far has read or
\* written the row buffer, or its backup copy, at an index outside
\* 0..MAX_ROW_SIZE-1: not setColumnValue in the last column or with a value
\* shorter than the old one, not dcols removing every column, not acol.
C22_IndicesStayInsideTheRow == oob = FALSE

====
